---- MODULE Spec2Model ----
(***************************************************************************)
(* Model of the disktable of rsstable (src/sst/disktable.rs).              *)
(*                                                                         *)
(* A FileDisktable owns a directory of generation-numbered data files and  *)
(* index files.  flush persists a memtable snapshot as generation          *)
(* data_gen + 1, find looks a key up newest generation first, clear        *)
(* removes the generations 0..=data_gen, and new recovers data_gen from    *)
(* the data-file names found in the directory.                             *)
(*                                                                         *)
(* The modules data_file and index_file are declared by disktable.rs but   *)
(* their code is not part of the sources at hand: DataFile and IndexFile   *)
(* are modelled from the design document (sections 4.2 and 4.3).  The same *)
(* holds for MemtableEntries::get.                                         *)
(***************************************************************************)
EXTENDS Integers, Sequences, FiniteSets, TLC

\* ------------------------------------------------------------------ bounds
\* Largest generation number a flush may produce in the model.
MaxGen == 2

\* Largest number of I/O failures the environment injects in one behaviour.
MaxIoErrors == 1

\* Keys are modelled by their rank in the key order of BTreeMap<String, _>.
Keys == {1, 2}
Values == {"old", "new"}

\* The inputs of the model: key 1 is written with either value and deleted,
\* key 2 is written with one value and never deleted.
ValuesOf(key) == IF key = 1 THEN {"old", "new"} ELSE {"old"}
DeletedKeys == {1}

\* The value field decoded from a tombstone record (a record without value).
TombstoneValue == ""

Gens == 0..MaxGen

\* Option<T>: None is the empty sequence, Some(x) the one-element sequence.
None == <<>>
Some(x) == <<x>>

VARIABLES
    running,      \* TRUE while a FileDisktable object exists
    data_gen,     \* FileDisktable.data_gen
    flushing,     \* FileDisktable.flushing : Option<MemtableEntries>
    data_files,   \* FileDisktable.data_files : the generations with a cached handle
    disk_data,    \* the directory: data file of each generation
    disk_index,   \* the directory: index file of each generation
    flushed,      \* history: the snapshot each generation was successfully flushed from
    io_errors,    \* environment: the number of I/O failures injected so far
    ret,          \* the last call and its result
    pc,           \* the statement of flush the running flush call has reached
    underlying,   \* HashMemtable.underlying : BTreeMap<K, V>
    tombstone,    \* HashMemtable.tombstone : BTreeSet<K>
    hist,         \* history: the most recent set or delete of each key
    mret          \* the last memtable call, its arguments and its result

diskVars == <<running, data_gen, flushing, data_files, disk_data, disk_index, flushed, io_errors, ret>>
memVars == <<underlying, tombstone, hist, mret>>
vars == <<diskVars, pc, memVars>>

\* ------------------------------------------------------------- memtable side
\* MemtableEntries<String, String>: a mapping and a tombstone set, disjoint.
MemtableEntries ==
    { [entries |-> f, tombstones |-> T] :
        f \in UNION { [D -> Values] : D \in SUBSET Keys }, T \in SUBSET Keys }

Snapshots ==
    { s \in MemtableEntries :
        /\ DOMAIN s.entries \cap s.tombstones = {}
        /\ \A k \in DOMAIN s.entries : s.entries[k] \in ValuesOf(k)
        /\ s.tombstones \subseteq DeletedKeys }

\* MemtableEntries::get -> GetResult (tombstones are consulted first).
mem_get(mem_entries, key) ==
    IF key \in mem_entries.tombstones THEN [tag |-> "Deleted", value |-> TombstoneValue]
    ELSE IF key \in DOMAIN mem_entries.entries
         THEN [tag |-> "Found", value |-> mem_entries.entries[key]]
         ELSE [tag |-> "NotFound", value |-> TombstoneValue]

\* ------------------------------------------------------------------- files
\* A file of the directory: whether its name exists, and its records.
NoFile == [exists |-> FALSE, recs |-> <<>>]
File(recs) == [exists |-> TRUE, recs |-> recs]

\* The elements of a set of numbers in increasing order (BTreeMap iteration
\* order, Vec::sort).
RECURSIVE sort(_)
sort(S) ==
    IF S = {} THEN <<>>
    ELSE LET m == CHOOSE x \in S : \A y \in S : x <= y
         IN  <<m>> \o sort(S \ {m})

\* Byte length of a data record: length-prefixed key, tombstone flag, and a
\* length-prefixed value when the record is not a tombstone.
RecordLen(rec) == 2 + 1 + (IF rec.tombstone THEN 0 ELSE 2)

\* Byte offset at which the i-th record of a data file begins.
RECURSIVE OffsetOf(_, _)
OffsetOf(recs, i) ==
    IF i <= 1 THEN 0 ELSE OffsetOf(recs, i - 1) + RecordLen(recs[i - 1])

\* The records DataFile::create writes for a snapshot, in key order.
data_records(mem_entries) ==
    LET keys == sort(DOMAIN mem_entries.entries \cup mem_entries.tombstones)
    IN  [ i \in 1..Len(keys) |->
            IF keys[i] \in mem_entries.tombstones
            THEN [key |-> keys[i], value |-> TombstoneValue, tombstone |-> TRUE]
            ELSE [key |-> keys[i], value |-> mem_entries.entries[keys[i]],
                  tombstone |-> FALSE] ]

\* The index entries DataFile::create returns: each record's key and offset.
create(mem_entries) ==
    LET recs == data_records(mem_entries)
    IN  [ i \in 1..Len(recs) |-> [key |-> recs[i].key, offset |-> OffsetOf(recs, i)] ]

\* DataFile::read_entry: the record beginning at the offset, tombstone or not;
\* nothing when no record begins there (the offset is out of range).
read_entry(file, offset) ==
    IF \E i \in 1..Len(file.recs) : OffsetOf(file.recs, i) = offset
    THEN Some(file.recs[CHOOSE i \in 1..Len(file.recs) : OffsetOf(file.recs, i) = offset])
    ELSE None

\* IndexFile::find_index: the index entry of the key, if the index has one.
find_index(gen, file, key) ==
    IF \E i \in 1..Len(file.recs) : file.recs[i].key = key
    THEN Some([data_gen |-> gen,
               offset |-> file.recs[CHOOSE i \in 1..Len(file.recs) :
                                        file.recs[i].key = key].offset])
    ELSE None

\* What a write that fails can leave behind: the file as it was, or a file
\* holding any prefix of the records that were being written.
Prefixes(recs) == { SubSeq(recs, 1, n) : n \in 0..Len(recs) }
FailedWrite(old, recs) == {old} \cup { File(p) : p \in Prefixes(recs) }

\* DataFile::clear / IndexFile::clear: removing a file that does not exist is
\* Ok (clear always visits generation 0, which flush never writes); the
\* removal of an existing file is what can fail.
clear_can_fail(file) == file.exists

\* -------------------------------------------------------------- disktable
\* FileDisktable::get_data_gens: the generation numbers in data-file names, sorted.
get_data_gens(dir) == sort({ g \in DOMAIN dir : dir[g].exists })

\* A recovery that takes the first element of the sorted list instead of the last.
get_latest_data_gen_first(dir) ==
    LET list == get_data_gens(dir)
    IN  IF Len(list) = 0 THEN 0 ELSE list[1]

\* FileDisktable::get_latest_data_gen: list.last().unwrap_or(&0)
get_latest_data_gen(dir) ==
    LET list == get_data_gens(dir)
    IN  IF Len(list) = 0 THEN 0 ELSE list[Len(list)]

\* FileDisktable::with_data_file: the cached handle, else a transient one;
\* either way the handle reads the generation's file in the directory.
with_data_file(gen) ==
    IF gen \in data_files THEN disk_data[gen] ELSE disk_data[gen]

\* FileDisktable::index_file
index_file(gen) == disk_index[gen]

\* FileDisktable::fetch: entry.map(|entry| (entry.key, entry.value))
fetch(gen, offset) ==
    LET entry == read_entry(with_data_file(gen), offset)
    IN  IF entry = None THEN None
        ELSE Some([key |-> entry[1].key, value |-> entry[1].value])

\* A closure that takes the record at the offset without comparing its key.
find_in_gen_unchecked(gen, key) ==
    LET index_entry == find_index(gen, index_file(gen), key)
    IN  IF index_entry = None THEN None
        ELSE LET kv == fetch(index_entry[1].data_gen, index_entry[1].offset)
             IN  IF kv # None THEN Some(kv[1].value) ELSE None

\* The closure of find_map in find: the generation's answer for the key.
find_in_gen(gen, key) ==
    LET index_entry == find_index(gen, index_file(gen), key)
    IN  IF index_entry = None THEN None
        ELSE LET kv == fetch(index_entry[1].data_gen, index_entry[1].offset)
             IN  IF kv # None /\ kv[1].key = key THEN Some(kv[1].value) ELSE None

\* A scan that forgets .rev(): generations oldest first.
RECURSIVE scan_up(_, _, _)
scan_up(gen, last, key) ==
    IF gen > last THEN None
    ELSE IF find_in_gen(gen, key) # None THEN find_in_gen(gen, key)
         ELSE scan_up(gen + 1, last, key)

scan_oldest_first(gen, key) == scan_up(0, gen, key)

\* find_from_disk: (0..=self.data_gen).rev().find_map(..)
RECURSIVE scan_from(_, _)
scan_from(gen, key) ==
    IF gen < 0 THEN None
    ELSE IF find_in_gen(gen, key) # None THEN find_in_gen(gen, key)
         ELSE scan_from(gen - 1, key)

find_from_disk(key) == scan_from(data_gen, key)

\* Disktable::find
find(key) ==
    IF flushing # None
    THEN LET r == mem_get(flushing[1], key)
         IN  CASE r.tag = "Found" -> Some(r.value)
               [] r.tag = "Deleted" -> None
               [] OTHER -> find_from_disk(key)
    ELSE find_from_disk(key)

\* The last call and how it ended: Ok, Err, or Panic.
Ret(op, res) == [op |-> op, res |-> res]

\* The environment lets one more I/O operation fail.
IoError ==
    /\ io_errors < MaxIoErrors
    /\ io_errors' = io_errors + 1

NoObject ==
    /\ running' = FALSE
    /\ data_gen' = 0
    /\ flushing' = None
    /\ data_files' = {}

\* FileDisktable::new, also the restart of the process over the directory.
New ==
    \E res \in {"Ok", "Err", "Panic"} :
        /\ IF res = "Ok" THEN UNCHANGED io_errors ELSE IoError
        /\ IF res = "Ok"
           THEN /\ running' = TRUE
                /\ data_gen' = get_latest_data_gen(disk_data)
                /\ flushing' = None
                /\ data_files' = {}
           ELSE NoObject
        /\ ret' = Ret("new", res)
        /\ UNCHANGED <<disk_data, disk_index, flushed>>
        /\ UNCHANGED <<pc, memVars>>

\* Disktable::find
Find ==
    \E key \in Keys :
        /\ running
        /\ find(key) \in {None} \cup { Some(v) : v \in Values \cup {TombstoneValue} }
        /\ ret' = Ret("find", "Ok")
        /\ UNCHANGED <<running, data_gen, flushing, data_files, disk_data, disk_index,
                       flushed, io_errors>>
        /\ UNCHANGED <<pc, memVars>>

\* A flush that writes the files of the current generation again.
next_data_gen_same == data_gen

\* The generation flush writes: let next_data_gen = self.data_gen + 1
next_data_gen == data_gen + 1

\* A flush that advances the generation before the writes have succeeded.
flush_data_gen_eager(ok) == data_gen + 1

\* The generation number flush leaves in data_gen.
flush_data_gen(ok) == IF ok THEN data_gen + 1 ELSE data_gen

\* The flushing field flush leaves behind.
flush_flushing(memtable_entries, ok) == IF ok THEN None ELSE Some(memtable_entries)

\* Disktable::flush, failing at the data-file write.
FlushDataErr ==
    \E memtable_entries \in Snapshots :
        /\ running
        /\ next_data_gen <= MaxGen
        /\ IoError
        /\ \E f \in FailedWrite(disk_data[next_data_gen], data_records(memtable_entries)) :
               disk_data' = [disk_data EXCEPT ![next_data_gen] = f]
        /\ flushing' = flush_flushing(memtable_entries, FALSE)
        /\ data_gen' = flush_data_gen(FALSE)
        /\ ret' = Ret("flush", "Err")
        /\ UNCHANGED <<running, data_files, disk_index, flushed>>
        /\ UNCHANGED <<pc, memVars>>

\* Disktable::flush, failing at the index-file write.
FlushIndexErr ==
    \E memtable_entries \in Snapshots :
        /\ running
        /\ next_data_gen <= MaxGen
        /\ IoError
        /\ disk_data' = [disk_data EXCEPT
                            ![next_data_gen] = File(data_records(memtable_entries))]
        /\ \E f \in FailedWrite(disk_index[next_data_gen], create(memtable_entries)) :
               disk_index' = [disk_index EXCEPT ![next_data_gen] = f]
        /\ flushing' = flush_flushing(memtable_entries, FALSE)
        /\ data_gen' = flush_data_gen(FALSE)
        /\ ret' = Ret("flush", "Err")
        /\ UNCHANGED <<running, data_files, flushed>>
        /\ UNCHANGED <<pc, memVars>>

\* Disktable::flush, both writes succeeding.
FlushOk ==
    \E memtable_entries \in Snapshots :
        /\ running
        /\ next_data_gen <= MaxGen
        /\ disk_data' = [disk_data EXCEPT
                            ![next_data_gen] = File(data_records(memtable_entries))]
        /\ disk_index' = [disk_index EXCEPT
                             ![next_data_gen] = File(create(memtable_entries))]
        /\ flushing' = flush_flushing(memtable_entries, TRUE)
        /\ data_gen' = flush_data_gen(TRUE)
        /\ flushed' = [flushed EXCEPT ![next_data_gen] = Some(memtable_entries)]
        /\ ret' = Ret("flush", "Ok")
        /\ UNCHANGED <<running, data_files, io_errors>>
        /\ UNCHANGED <<pc, memVars>>

\* A clear that steps the generation back by one instead of resetting it.
clear_data_gen_step == IF data_gen > 0 THEN data_gen - 1 ELSE 0

\* The generation number clear leaves in data_gen.
clear_data_gen == 0

\* The directory after clear removed the files of the generations below upto.
Removed(dir, upto) == [ g \in DOMAIN dir |-> IF g < upto THEN NoFile ELSE dir[g] ]

\* The history once the files of the generations below upto are removed.
Forgotten(upto) == [ g \in Gens |-> IF g < upto THEN None ELSE flushed[g] ]

\* Disktable::clear, every removal succeeding.
ClearOk ==
    /\ running
    /\ disk_data' = Removed(disk_data, data_gen + 1)
    /\ disk_index' = Removed(disk_index, data_gen + 1)
    /\ flushed' = Forgotten(data_gen + 1)
    /\ data_gen' = clear_data_gen
    /\ ret' = Ret("clear", "Ok")
    /\ UNCHANGED <<running, flushing, data_files, io_errors>>
    /\ UNCHANGED <<pc, memVars>>

\* Disktable::clear, a removal failing: unwrap panics in the middle of the loop.
ClearPanic ==
    \E gen \in 0..data_gen, which \in {"data", "index"} :
        /\ running
        /\ IoError
        /\ clear_can_fail(IF which = "data" THEN disk_data[gen] ELSE disk_index[gen])
        /\ disk_data' = Removed(disk_data, IF which = "data" THEN gen ELSE gen + 1)
        /\ disk_index' = Removed(disk_index, gen)
        /\ flushed' = Forgotten(IF which = "data" THEN gen ELSE gen + 1)
        /\ NoObject
        /\ ret' = Ret("clear", "Panic")
        /\ UNCHANGED <<pc, memVars>>

\* ------------------------------------------------------------ HashMemtable
\* const MAX_ENTRY: usize = 3
MAX_ENTRY == 3

\* The keys of the memtable calls: one more than MAX_ENTRY, so that a detached
\* snapshot can hold tombstones next to its MAX_ENTRY pairs.
MemKeys == Keys \cup {3, 4}

\* BTreeMap::new()
NoEntries == [k \in {} |-> TombstoneValue]

\* BTreeMap::insert and BTreeMap::remove
insert(map, key, value) ==
    [k \in DOMAIN map \cup {key} |-> IF k = key THEN value ELSE map[k]]
remove(map, key) == [k \in DOMAIN map \ {key} |-> map[k]]

\* HashMemtable::new
MemNew ==
    /\ underlying = NoEntries
    /\ tombstone = {}

\* HashMemtable::is_deleted
is_deleted(key) == key \in tombstone

\* A tombstone check that takes the branches the wrong way round.
with_check_tombstone_swapped(key, deleted, not_deleted) ==
    IF is_deleted(key) THEN not_deleted ELSE deleted

\* HashMemtable::with_check_tombstone
with_check_tombstone(key, deleted, not_deleted) ==
    IF is_deleted(key) THEN deleted ELSE not_deleted

\* HashMemtable::flush: hands back both collections and leaves empty ones.
flush(contents, deleted) ==
    [ snapshot |-> [entries |-> contents, tombstones |-> deleted],
      underlying |-> NoEntries,
      tombstone |-> {} ]

\* Memtable::get
get(key) ==
    with_check_tombstone(key, None,
        IF key \in DOMAIN underlying THEN Some(underlying[key]) ELSE None)

\* A capacity test that lets the mapping grow to MAX_ENTRY pairs.
set_is_full_strict(map) == Cardinality(DOMAIN map) > MAX_ENTRY

\* The capacity test of set: self.underlying.len() >= MAX_ENTRY
set_is_full(map) == Cardinality(DOMAIN map) >= MAX_ENTRY

\* A delete that keeps the pair of the key in the mapping.
delete_underlying_kept(key) == underlying

\* The mapping after delete: self.underlying.remove(&key)
delete_underlying(key) == remove(underlying, key)

\* A delete that changes nothing.
delete_noop(key) == [underlying |-> underlying, tombstone |-> tombstone]

\* Memtable::delete, as the collections it leaves.
delete(key) ==
    [underlying |-> delete_underlying(key), tombstone |-> tombstone \cup {key}]

\* The last memtable call: its name, its arguments, what it returned.
MRet(op, key, value, res) == [op |-> op, key |-> key, value |-> value, res |-> res]

\* History of one key: its most recent set or delete, the value of its most
\* recent set, and whether a snapshot was detached at or after that set.
NoHist == [op |-> "none", value |-> None, detached |-> FALSE]
Detached(h) == [k \in DOMAIN h |-> [h[k] EXCEPT !.detached = TRUE]]

\* Memtable::get
Get ==
    \E key \in MemKeys :
        /\ mret' = MRet("get", key, None, get(key))
        /\ UNCHANGED <<underlying, tombstone, hist, diskVars, pc>>

\* Memtable::set
Set ==
    \E key \in MemKeys :
        \E value \in ValuesOf(key) :
            LET deleted == tombstone \ {key}
                contents == insert(underlying, key, value)
                h == [hist EXCEPT ![key] =
                         [op |-> "set", value |-> Some(value), detached |-> FALSE]]
            IN  IF set_is_full(contents)
                THEN /\ underlying' = flush(contents, deleted).underlying
                     /\ tombstone' = flush(contents, deleted).tombstone
                     /\ mret' = MRet("set", key, Some(value),
                                     Some(flush(contents, deleted).snapshot))
                     /\ hist' = Detached(h)
                     /\ UNCHANGED <<diskVars, pc>>
                ELSE /\ underlying' = contents
                     /\ tombstone' = deleted
                     /\ mret' = MRet("set", key, Some(value), None)
                     /\ hist' = h
                     /\ UNCHANGED <<diskVars, pc>>

\* Memtable::delete
Delete ==
    \E key \in MemKeys :
        /\ underlying' = delete(key).underlying
        /\ tombstone' = delete(key).tombstone
        /\ mret' = MRet("delete", key, None, None)
        /\ hist' = [hist EXCEPT ![key] =
                       [op |-> "delete", value |-> @.value, detached |-> @.detached]]
        /\ UNCHANGED <<diskVars, pc>>

Init ==
    /\ running = TRUE
    /\ data_gen = 0
    /\ flushing = None
    /\ data_files = {}
    /\ disk_data = [g \in Gens |-> NoFile]
    /\ disk_index = [g \in Gens |-> NoFile]
    /\ flushed = [g \in Gens |-> None]
    /\ io_errors = 0
    /\ ret = Ret("new", "Ok")
    /\ pc = "idle"
    /\ MemNew
    /\ hist = [k \in MemKeys |-> NoHist]
    /\ mret = MRet("new", 0, None, None)

Next ==
    \/ New
    \/ Find
    \/ FlushOk
    \/ FlushDataErr
    \/ FlushIndexErr
    \/ ClearOk
    \/ ClearPanic

Spec == Init /\ [][Next]_vars

\* The memtable on its own: get, set and delete in any order.
NextMem ==
    \/ Get
    \/ Set
    \/ Delete

SpecMem == Init /\ [][NextMem]_vars

\* ================================================================ properties
RetIs(r, op, res) == r.op = op /\ r.res = res

\* What the successfully flushed generation g recorded for key k.
GenValue(g, k) == flushed[g] # None /\ k \in DOMAIN flushed[g][1].entries
GenTomb(g, k) == flushed[g] # None /\ k \in flushed[g][1].tombstones
GenHas(g, k) == GenValue(g, k) \/ GenTomb(g, k)

\* Every generation find scans was produced by a successful flush.
AllFlushed == \A g \in 1..data_gen : flushed[g] # None

\* The newest generation up to data_gen that holds a value for k.
NewestWith(k) ==
    CHOOSE g \in 1..data_gen : GenValue(g, k) /\ \A h \in (g + 1)..data_gen : ~GenValue(h, k)

\* C1 (generation masking): when generation g1 maps k to a value, a later
\* generation g2 <= data_gen holds a tombstone for k and no generation newer
\* than g2 contains k, find(k) returns nothing.
C1_GenerationMasking ==
    (running /\ flushing = None) =>
        \A k \in Keys : \A g1, g2 \in 1..data_gen :
            ( /\ g1 < g2
              /\ GenValue(g1, k)
              /\ GenTomb(g2, k)
              /\ \A h \in (g2 + 1)..data_gen : ~GenHas(h, k) )
            => find(k) = None

\* C2 (newest wins): with no snapshot in flight and every generation up to
\* data_gen successfully flushed, a key that has value records and no tombstone
\* is answered with the value of the highest generation that contains it.
C2_NewestWins ==
    (running /\ flushing = None /\ AllFlushed) =>
        \A k \in Keys :
            ( /\ \E g \in 1..data_gen : GenValue(g, k)
              /\ \A g \in 1..data_gen : ~GenTomb(g, k) )
            => find(k) = Some(flushed[NewestWith(k)][1].entries[k])

\* C2 witness: the key holds "old" in generation 1 and "new" in generation 2,
\* and the lookup answers "new".
C2_Witness ==
    /\ running /\ flushing = None /\ data_gen = 2 /\ AllFlushed
    /\ GenValue(1, 1) /\ flushed[1][1].entries[1] = "old"
    /\ GenValue(2, 1) /\ flushed[2][1].entries[1] = "new"
    /\ find(1) = Some("new")

\* C3 (flush round trip): right after flush(M, T) returned Ok, find(k) is M[k]
\* for every k in M and nothing for every k in T.
C3_FlushRoundTrip ==
    (running /\ RetIs(ret, "flush", "Ok")) =>
        LET snapshot == flushed[data_gen][1]
        IN  /\ \A k \in DOMAIN snapshot.entries : find(k) = Some(snapshot.entries[k])
            /\ \A k \in snapshot.tombstones : find(k) = None

\* C4 (generation counter): on one FileDisktable, data_gen grows by exactly 1
\* in a flush that returns Ok, becomes 0 in a clear that returns Ok, and is left
\* as it was by a flush that returns Err and by find.
C4_GenChangesOnlyByFlushOkOrClear ==
    [][ (running /\ running' /\ ret'.op # "new") =>
            /\ RetIs(ret', "flush", "Ok") => data_gen' = data_gen + 1
            /\ RetIs(ret', "clear", "Ok") => data_gen' = 0
            /\ RetIs(ret', "flush", "Err") => data_gen' = data_gen
            /\ ret'.op = "find" => data_gen' = data_gen ]_vars

\* C4 witness: a flush failed on top of a flushed generation 1 and the
\* generation number is still 1.
C4_Witness ==
    running /\ RetIs(ret, "flush", "Err") /\ data_gen = 1 /\ flushed[1] # None

\* C5 (failed flush): after a flush returned Err, find(k) answers for every
\* key what it answered right before the call.
C5_FailedFlushKeepsLookups ==
    [][ (running /\ RetIs(ret', "flush", "Err")) =>
            \A k \in Keys : find(k)' = find(k) ]_vars

\* C6 (in-flight snapshot): between calls, the flushing field is None.
C6_FlushingNoneBetweenCalls == running => flushing = None

\* The largest generation number in a data-file name of the directory, 0 if none.
LargestDataGen(dir) ==
    IF \E g \in DOMAIN dir : dir[g].exists
    THEN CHOOSE g \in DOMAIN dir :
             dir[g].exists /\ \A h \in DOMAIN dir : dir[h].exists => h <= g
    ELSE 0

\* No failed flush has left anything behind: no snapshot is held in flushing
\* and the directory has no data file beyond data_gen.
NoFailedFlushLeftover ==
    /\ flushing = None
    /\ \A g \in Gens : g > data_gen => ~disk_data[g].exists

\* C7 (recovery): new sets data_gen to the largest generation number in a
\* data-file name, 0 without data file; restarting a table on which no failed
\* flush left anything behind recovers the same data_gen and the same find(k)
\* for every key.
C7_Recovery ==
    [][ RetIs(ret', "new", "Ok") =>
            /\ data_gen' = LargestDataGen(disk_data')
            /\ (running /\ NoFailedFlushLeftover) =>
                   /\ data_gen' = data_gen
                   /\ \A k \in Keys : find(k)' = find(k) ]_vars

\* C7 witness: a table restarted over two flushed generations that answers
\* from both of them.
C7_Witness ==
    /\ running /\ RetIs(ret, "new", "Ok") /\ data_gen = 2 /\ AllFlushed
    /\ GenValue(1, 2) /\ ~GenHas(2, 2) /\ find(2) = Some("old")
    /\ GenValue(2, 1) /\ find(1) = Some(flushed[2][1].entries[1])

\* Generation g has a completely written data file and index file.
GenComplete(g) ==
    \E s \in MemtableEntries :
        /\ disk_data[g] = File(data_records(s))
        /\ disk_index[g] = File(create(s))

\* C8 (generation completeness): every generation 1..data_gen has both files
\* completely written.
C8_GenerationsComplete ==
    running => \A g \in 1..data_gen : GenComplete(g)

\* C9 (clear wipes the table): after clear returned Ok, data_gen is 0, no file
\* of the generations 0..=N remains and find(k) returns nothing for every key.
C9_ClearWipes ==
    [][ (running /\ RetIs(ret', "clear", "Ok")) =>
            /\ data_gen' = 0
            /\ \A g \in 0..data_gen : ~disk_data'[g].exists /\ ~disk_index'[g].exists
            /\ \A k \in Keys : find(k)' = None ]_vars

\* C10 (clear idempotence): a clear that directly follows a clear that
\* returned Ok returns Ok too and changes nothing.
C10_ClearIdempotent ==
    [][ (running /\ RetIs(ret, "clear", "Ok") /\ ret'.op = "clear") =>
            /\ ret'.res = "Ok"
            /\ UNCHANGED <<running, data_gen, flushing, data_files, disk_data,
                           disk_index>> ]_vars

\* C10 witness: the table after a clear that returned Ok.
C10_Witness ==
    /\ running /\ RetIs(ret, "clear", "Ok") /\ data_gen = 0
    /\ \A g \in 0..data_gen : ~disk_data[g].exists /\ ~disk_index[g].exists

\* C11 (no panic on I/O failure): flush and clear report an I/O failure as an
\* error result; neither of them ends in a panic.
C11_IoFailureIsErr ==
    ret.op \in {"flush", "clear"} => ret.res \in {"Ok", "Err"}

\* C17 (flushed generations are immutable): find, flush and new leave the
\* data file and the index file of every successfully flushed generation as
\* they are; flush writes files of generation data_gen + 1 only; no file is
\* removed by find, flush or new.
C17_FlushedGenerationsImmutable ==
    [][ ret'.op \in {"find", "flush", "new"} =>
            \A g \in Gens :
                /\ flushed[g] # None =>
                       disk_data'[g] = disk_data[g] /\ disk_index'[g] = disk_index[g]
                /\ (ret'.op # "flush" \/ g # data_gen + 1) =>
                       disk_data'[g] = disk_data[g] /\ disk_index'[g] = disk_index[g]
                /\ disk_data[g].exists => disk_data'[g].exists
                /\ disk_index[g].exists => disk_index'[g].exists ]_vars

\* C17 witness: a failed flush has written a data file of generation 2 next
\* to the flushed generation 1, whose files are the ones flush wrote.
C17_Witness ==
    /\ running /\ RetIs(ret, "flush", "Err") /\ data_gen = 1 /\ flushed[1] # None
    /\ disk_data[2].exists
    /\ disk_data[1] = File(data_records(flushed[1][1]))
    /\ disk_index[1] = File(create(flushed[1][1]))

\* The keys a snapshot holds both as a pair and as a tombstone.
InBoth(mem_entries) == DOMAIN mem_entries.entries \cap mem_entries.tombstones

\* C13 (memtable disjointness): after any sequence of set and delete calls no
\* key is both in the mapping and in the tombstone set, and the same holds
\* for every snapshot a set call has detached.
C13_Disjoint ==
    /\ DOMAIN underlying \cap tombstone = {}
    /\ mret.res # None /\ mret.op = "set" => InBoth(mret.res[1]) = {}

\* C13 witness: a set detached a snapshot that holds a tombstone next to its
\* pairs, key 1 among them, and left the memtable empty.
C13_Witness ==
    /\ mret.op = "set" /\ mret.res # None
    /\ mret.res[1].tombstones # {}
    /\ 1 \in DOMAIN mret.res[1].entries
    /\ underlying = NoEntries /\ tombstone = {}

\* C14 (tombstone precedence in the memtable): a key whose most recent set or
\* delete is a delete is not found by get, however many set calls came before
\* the delete and whether or not a snapshot was detached since.
C14_DeletedIsNotFound ==
    \A k \in MemKeys : hist[k].op = "delete" => get(k) = None

\* C14 witness: key 1 was set, a snapshot was detached at or after that set,
\* key 1 was deleted, and get(1) has returned nothing.
C14_Witness ==
    /\ hist[1].op = "delete" /\ hist[1].value # None /\ hist[1].detached
    /\ mret = MRet("get", 1, None, None)
    /\ 1 \in tombstone

\* C15 (capacity trigger): a set call returns a snapshot exactly when the
\* mapping, with the pair of the call inserted, holds MAX_ENTRY pairs; the
\* snapshot is then that whole mapping with the tombstone set, and the
\* memtable is left empty. Every other set returns nothing and keeps the
\* contents, and delete returns nothing and detaches nothing.
C15_CapacityTrigger ==
    [][ /\ mret'.op = "set" =>
              LET contents == insert(underlying, mret'.key, mret'.value[1])
                  deleted == tombstone \ {mret'.key}
              IN  /\ mret'.res # None <=> Cardinality(DOMAIN contents) = MAX_ENTRY
                  /\ mret'.res # None =>
                         /\ mret'.res[1] = [entries |-> contents, tombstones |-> deleted]
                         /\ underlying' = NoEntries
                         /\ tombstone' = {}
                  /\ mret'.res = None =>
                         /\ underlying' = contents
                         /\ tombstone' = deleted
        /\ mret'.op = "delete" =>
              /\ mret'.res = None
              /\ underlying' = remove(underlying, mret'.key)
              /\ tombstone' = tombstone \cup {mret'.key} ]_vars

\* C15 witness: set(4, _) brought the mapping to MAX_ENTRY pairs and returned
\* them with the tombstone of key 1; the memtable is empty.
C15_Witness ==
    /\ mret.op = "set" /\ mret.key = 4 /\ mret.res # None
    /\ Cardinality(DOMAIN mret.res[1].entries) = MAX_ENTRY
    /\ mret.res[1].tombstones = {1}
    /\ underlying = NoEntries /\ tombstone = {}

\* C16 (get returns the live value), as stated: get(k) returns v exactly when
\* the most recent set or delete of k is set(k, v), and nothing otherwise.
C16_GetLive ==
    \A k \in MemKeys :
        get(k) = IF hist[k].op = "set" THEN hist[k].value ELSE None

\* C16, amended: get(k) returns v exactly when the most recent set or delete
\* of k is set(k, v) and no set call, that one included, has detached a
\* snapshot since; it returns nothing otherwise.
C16_GetLiveUntilDetached ==
    \A k \in MemKeys :
        get(k) = IF hist[k].op = "set" /\ ~hist[k].detached
                 THEN hist[k].value
                 ELSE None

\* C16 witness: get(1) has returned the value of the most recent set of key
\* 1, while key 2, set before the last detach, is not found, nor is the
\* deleted key 3.
C16_Witness ==
    /\ hist[1] = [op |-> "set", value |-> Some("new"), detached |-> FALSE]
    /\ mret = MRet("get", 1, None, Some("new"))
    /\ hist[2].op = "set" /\ hist[2].detached /\ get(2) = None
    /\ hist[3].op = "delete" /\ 3 \in tombstone

\* C19 (bounded buffering): counting each pair and each tombstone as an entry,
\* the memtable holds fewer than MAX_ENTRY entries between calls.
C19_FewerThanMaxEntries ==
    Cardinality(DOMAIN underlying) + Cardinality(tombstone) < MAX_ENTRY

\* ------------------------------------------------- flush, statement by statement
\* Disktable::flush taken apart into its statements, with find free to run
\* between any two of them. pc names the statement the call executes next.

\* self.flushing = Some(memtable_entries)
FlushSetFlushing ==
    \E memtable_entries \in Snapshots :
        /\ running /\ pc = "idle"
        /\ next_data_gen <= MaxGen
        /\ flushing' = Some(memtable_entries)
        /\ pc' = "create_data"
        /\ UNCHANGED <<running, data_gen, data_files, disk_data, disk_index, flushed,
                       io_errors, ret, memVars>>

\* DataFile::create(...)?, succeeding
FlushCreateData ==
    /\ pc = "create_data"
    /\ disk_data' = [disk_data EXCEPT
                        ![next_data_gen] = File(data_records(flushing[1]))]
    /\ pc' = "create_index"
    /\ UNCHANGED <<running, data_gen, flushing, data_files, disk_index, flushed,
                   io_errors, ret, memVars>>

\* DataFile::create(...)?, failing: flush returns the error
FlushCreateDataErr ==
    /\ pc = "create_data"
    /\ IoError
    /\ \E f \in FailedWrite(disk_data[next_data_gen], data_records(flushing[1])) :
           disk_data' = [disk_data EXCEPT ![next_data_gen] = f]
    /\ pc' = "idle"
    /\ ret' = Ret("flush", "Err")
    /\ UNCHANGED <<running, data_gen, flushing, data_files, disk_index, flushed, memVars>>

\* IndexFile::create_index(...)?, succeeding
FlushCreateIndex ==
    /\ pc = "create_index"
    /\ disk_index' = [disk_index EXCEPT ![next_data_gen] = File(create(flushing[1]))]
    /\ pc' = "advance"
    /\ UNCHANGED <<running, data_gen, flushing, data_files, disk_data, flushed,
                   io_errors, ret, memVars>>

\* IndexFile::create_index(...)?, failing: flush returns the error
FlushCreateIndexErr ==
    /\ pc = "create_index"
    /\ IoError
    /\ \E f \in FailedWrite(disk_index[next_data_gen], create(flushing[1])) :
           disk_index' = [disk_index EXCEPT ![next_data_gen] = f]
    /\ pc' = "idle"
    /\ ret' = Ret("flush", "Err")
    /\ UNCHANGED <<running, data_gen, flushing, data_files, disk_data, flushed, memVars>>

\* self.data_gen = next_data_gen
FlushAdvance ==
    /\ pc = "advance"
    /\ data_gen' = next_data_gen
    /\ pc' = "clear_flushing"
    /\ UNCHANGED <<running, flushing, data_files, disk_data, disk_index, flushed,
                   io_errors, ret, memVars>>

\* self.flushing = None; Ok(())
FlushClearFlushing ==
    /\ pc = "clear_flushing"
    /\ flushing' = None
    /\ flushed' = [flushed EXCEPT ![data_gen] = flushing]
    /\ pc' = "idle"
    /\ ret' = Ret("flush", "Ok")
    /\ UNCHANGED <<running, data_gen, data_files, disk_data, disk_index, io_errors, memVars>>

NextSteps ==
    \/ Find
    \/ FlushSetFlushing
    \/ FlushCreateData
    \/ FlushCreateDataErr
    \/ FlushCreateIndex
    \/ FlushCreateIndexErr
    \/ FlushAdvance
    \/ FlushClearFlushing

SpecSteps == Init /\ [][NextSteps]_vars

\* A statement of a flush that goes on to complete: every statement after the
\* first one, the two failing writes left out.
FlushStep == pc # "idle" /\ pc' # pc /\ (pc' # "idle" \/ pc = "clear_flushing")

\* C12 (find interleaved with flush): from the moment the in-flight snapshot
\* is set, no statement of a flush that completes changes what find returns
\* for any key, so a find between two statements returns what find returns
\* right after the flush.
C12_FindStableDuringFlush ==
    [][ FlushStep => \A k \in Keys : find(k)' = find(k) ]_vars

\* The same for the keys the in-flight snapshot holds no tombstone of.
FindStableForKeysNotDeleted ==
    [][ FlushStep => \A k \in Keys \ flushing[1].tombstones : find(k)' = find(k) ]_vars

\* ------------------------------------------------ index and data file out of step
\* The directories a restart can find after flush(s0) returned Ok for
\* generation 1 and two later flush calls failed at generation 2: flush(s1) at
\* the index-file write, then flush(s2) at the data-file write. The index file
\* of generation 2 then comes from s1 and its data file from s2. The budget
\* of I/O failures is used up.
InitSkew ==
    \E s0 \in Snapshots, s1 \in Snapshots, s2 \in Snapshots :
        \E data2 \in FailedWrite(File(data_records(s1)), data_records(s2)),
           index2 \in FailedWrite(NoFile, create(s1)) :
            /\ running = TRUE
            /\ flushing = None
            /\ data_files = {}
            /\ disk_data = [g \in Gens |-> CASE g = 1 -> File(data_records(s0))
                                             [] g = 2 -> data2
                                             [] OTHER -> NoFile]
            /\ disk_index = [g \in Gens |-> CASE g = 1 -> File(create(s0))
                                              [] g = 2 -> index2
                                              [] OTHER -> NoFile]
            /\ data_gen = get_latest_data_gen(disk_data)
            /\ flushed = [g \in Gens |-> IF g = 1 THEN Some(s0) ELSE None]
            /\ io_errors = MaxIoErrors
            /\ ret = Ret("new", "Ok")
            /\ pc = "idle"
            /\ MemNew
            /\ hist = [k \in MemKeys |-> NoHist]
            /\ mret = MRet("new", 0, None, None)

NextSkew ==
    \/ New
    \/ Find
    \/ FlushOk
    \/ ClearOk

SpecSkew == InitSkew /\ [][NextSkew]_vars

\* The record of a data file that begins at the offset the generation's index
\* gives for the key, when the index has the key and such a record exists.
IndexedRecords(g, k) ==
    { rec \in { disk_data[g].recs[j] : j \in 1..Len(disk_data[g].recs) } :
        \E i \in 1..Len(disk_index[g].recs), j \in 1..Len(disk_data[g].recs) :
            /\ disk_index[g].recs[i].key = k
            /\ OffsetOf(disk_data[g].recs, j) = disk_index[g].recs[i].offset
            /\ disk_data[g].recs[j] = rec }

\* The generations whose index leads to a record of the key itself.
Resolving(k) == { g \in 0..data_gen : \E rec \in IndexedRecords(g, k) : rec.key = k }

\* The generations whose index has the key but leads to a record of another
\* key, or to no record.
Mismatching(k) ==
    { g \in 0..data_gen :
        /\ \E i \in 1..Len(disk_index[g].recs) : disk_index[g].recs[i].key = k
        /\ \A rec \in IndexedRecords(g, k) : rec.key # k }

\* C18 (a mismatch is a miss for that generation only): with no snapshot in
\* flight, find(k) is the value of the record of k in the newest generation
\* whose index leads to a record of k, and nothing when there is no such
\* generation; generations whose index leads elsewhere are passed over.
C18_MismatchIsMiss ==
    running /\ flushing = None =>
        \A k \in Keys :
            IF Resolving(k) = {} THEN find(k) = None
            ELSE LET g == CHOOSE x \in Resolving(k) : \A y \in Resolving(k) : y <= x
                 IN  \E rec \in IndexedRecords(g, k) : find(k) = Some(rec.value)

\* C18 witness: the index of generation 2 leads key 1 to a record of another
\* key, generation 1 holds key 1, and a find has returned; find(1) is the
\* value from generation 1.
C18_Witness ==
    /\ running /\ flushing = None /\ data_gen = 2
    /\ RetIs(ret, "find", "Ok")
    /\ 2 \in Mismatching(1)
    /\ IndexedRecords(2, 1) # {}
    /\ Resolving(1) = {1}
    /\ find(1) = Some(flushed[1][1].entries[1])
====
